---- MODULE Spec2Model ----
(***************************************************************************)
(* PDF outline extraction (main.py, helper.py).                            *)
(*                                                                         *)
(* A Python str is modelled as a sequence of one-character strings, so     *)
(* that length, case, substring and regular-expression tests are computed  *)
(* from the characters.  Font sizes and coordinates are integers (points). *)
(***************************************************************************)
EXTENDS Integers, Sequences, FiniteSets, TLC

(***************************************************************************)
(* Characters and the str methods the program uses                         *)
(***************************************************************************)
UpperSeq == <<"A","B","C","D","E","F","G","H","I","J","K","L","M",
              "N","O","P","Q","R","S","T","U","V","W","X","Y","Z">>
LowerSeq == <<"a","b","c","d","e","f","g","h","i","j","k","l","m",
              "n","o","p","q","r","s","t","u","v","w","x","y","z">>
UpperC == {UpperSeq[i] : i \in DOMAIN UpperSeq}
LowerC == {LowerSeq[i] : i \in DOMAIN LowerSeq}
DigitC == {"0","1","2","3","4","5","6","7","8","9"}
SpaceC == {" ", "\n"}
VowelC == {"a","e","i","o","u"}
\* \w of the re module
WordC == UpperC \cup LowerC \cup DigitC \cup {"_"}

\* Op applied to the value of e: Python evaluates an expression once, where it
\* stands, and the name it is assigned to holds the value
Let(e, Op(_)) == CHOOSE r \in {Op(v) : v \in {e}} : TRUE

LowerOf(c) ==
    IF c \in UpperC THEN LowerSeq[CHOOSE i \in DOMAIN UpperSeq : UpperSeq[i] = c]
    ELSE c

\* str.lower()
StrLower(str) == Let(str, LAMBDA s : [i \in DOMAIN s |-> LowerOf(s[i])])

\* str.isupper(): at least one cased character and no lower-case one
IsUpper(str) ==
    Let(str, LAMBDA s :
        /\ \E i \in DOMAIN s : s[i] \in UpperC
        /\ \A i \in DOMAIN s : s[i] \notin LowerC)

\* str.istitle(): upper-case characters only after uncased ones, lower-case
\* characters only after cased ones, and at least one cased character
IsTitle(str) ==
    Let(str, LAMBDA s :
        /\ \E i \in DOMAIN s : s[i] \in UpperC
        /\ \A i \in DOMAIN s :
              LET prevCased == i > 1 /\ s[i-1] \in (UpperC \cup LowerC)
              IN  /\ s[i] \in UpperC => ~prevCased
                  /\ s[i] \in LowerC => prevCased)

\* str.isdigit()
IsDigit(str) == Let(str, LAMBDA s : Len(s) > 0 /\ \A i \in DOMAIN s : s[i] \in DigitC)

\* sub in s
Contains(str, sub) ==
    Let(str, LAMBDA s :
        \E i \in 0..(Len(s) - Len(sub)) :
            \A k \in 1..Len(sub) : s[i + k] = sub[k])

\* len(s.split())
WordCount(str) ==
    Let(str, LAMBDA s :
        Cardinality({i \in DOMAIN s :
            s[i] \notin SpaceC /\ (i = 1 \/ s[i-1] \in SpaceC)}))

\* str.strip()
Strip(str) ==
    Let(str, LAMBDA s :
        Let({i \in DOMAIN s : s[i] \notin SpaceC}, LAMBDA keep :
            IF keep = {} THEN <<>>
            ELSE SubSeq(s, CHOOSE i \in keep : \A j \in keep : i <= j,
                           CHOOSE i \in keep : \A j \in keep : j <= i)))

\* the length of the run of characters of class cls starting at position i
RunLen(s, i, cls) ==
    Let({j \in i..Len(s) : s[j] \notin cls}, LAMBDA stop :
        IF i > Len(s) THEN 0
        ELSE IF stop = {} THEN Len(s) - i + 1
        ELSE (CHOOSE j \in stop : \A k \in stop : j <= k) - i)

(***************************************************************************)
(* Regular expressions.  Every pattern of the program is a sequence of     *)
(* literals and greedy character-class runs in which a run is never        *)
(* followed by a character of its own class, so matching needs no          *)
(* backtracking: a pattern is a sequence of items matched left to right.   *)
(***************************************************************************)
LetterC == UpperC \cup LowerC
\* [^\w\s]: the characters of the model's alphabet outside \w and \s
PunctC == {":", ".", ",", "!", "/", "-", "(", ")", "&", "'"}

Lit(str)     == [k |-> "lit",  s |-> str,  c |-> {}, n |-> 0]
Opt(str)     == [k |-> "opt",  s |-> str,  c |-> {}, n |-> 0]
Many(cls, m) == [k |-> "many", s |-> <<>>, c |-> cls, n |-> m]
One(cls)     == [k |-> "one",  s |-> <<>>, c |-> cls, n |-> 0]
End          == [k |-> "end",  s |-> <<>>, c |-> {}, n |-> 0]
Rest         == [k |-> "rest", s |-> <<>>, c |-> {}, n |-> 0]

\* str occurs in s at position i
LitAt(s, i, str) ==
    /\ i + Len(str) - 1 <= Len(s)
    /\ \A k \in 1..Len(str) : s[i + k - 1] = str[k]

\* the position after the match of items[j..] at position i of s, 0 if none
RECURSIVE MatchFrom(_, _, _, _)
MatchFrom(items, j, s, i) ==
    IF j > Len(items) THEN i
    ELSE Let(items[j], LAMBDA it :
         CASE it.k = "lit" ->
                IF LitAt(s, i, it.s) THEN MatchFrom(items, j + 1, s, i + Len(it.s))
                ELSE 0
           [] it.k = "opt" ->
                IF LitAt(s, i, it.s) THEN MatchFrom(items, j + 1, s, i + Len(it.s))
                ELSE MatchFrom(items, j + 1, s, i)
           [] it.k = "many" ->
                Let(RunLen(s, i, it.c), LAMBDA r :
                    IF r >= it.n THEN Let(i + r, LAMBDA e : MatchFrom(items, j + 1, s, e))
                    ELSE 0)
           [] it.k = "one" ->
                IF i <= Len(s) /\ s[i] \in it.c
                THEN MatchFrom(items, j + 1, s, i + 1) ELSE 0
           [] it.k = "end" ->
                IF i = Len(s) + 1 THEN MatchFrom(items, j + 1, s, i) ELSE 0
           [] it.k = "rest" ->
                Let({s[x] : x \in DOMAIN s} \ {"\n"}, LAMBDA notnl :
                    Let(i + RunLen(s, i, notnl), LAMBDA e : MatchFrom(items, j + 1, s, e))))

\* re.match(pattern, s): the pattern matches at the start of s
ReMatch(items, str) == Let(str, LAMBDA s : MatchFrom(items, 1, s, 1) # 0)

\* the position after the longest repetition (items)+ at position i, 0 if none
RECURSIVE MatchPlus(_, _, _)
MatchPlus(items, s, i) ==
    Let(MatchFrom(items, 1, s, i), LAMBDA e :
        IF e = 0 THEN 0
        ELSE IF e = i THEN e
        ELSE Let(MatchPlus(items, s, e), LAMBDA more :
                 IF more = 0 THEN e ELSE more))

\* re.sub(pattern, repl, s) from position i on, for a pattern that matches no
\* empty string; plus says the pattern is (items)+
MatchEnd(items, plus, s, i) ==
    IF plus THEN MatchPlus(items, s, i) ELSE MatchFrom(items, 1, s, i)

Least(S) == CHOOSE j \in S : \A k \in S : j <= k

RECURSIVE SubFrom(_, _, _, _, _)
SubFrom(items, plus, repl, s, i) ==
    Let({j \in i..Len(s) : MatchEnd(items, plus, s, j) > j}, LAMBDA starts :
        IF starts = {} THEN SubSeq(s, i, Len(s))
        ELSE Let(Least(starts), LAMBDA j :
             Let(MatchEnd(items, plus, s, j), LAMBDA e :
                 SubSeq(s, i, j - 1) \o repl \o SubFrom(items, plus, repl, s, e))))

ReSub(items, repl, str)     == Let(str, LAMBDA s : SubFrom(items, FALSE, repl, s, 1))
ReSubPlus(items, repl, str) == Let(str, LAMBDA s : SubFrom(items, TRUE, repl, s, 1))

(***************************************************************************)
(* The PDF layer's data (fitz): a document is a sequence of lines in page  *)
(* order, each line a sequence of spans, and a table of contents.          *)
(*   span: [text, size, hasSize, font, bbox]         (bbox: x0, y0, x1, y1)*)
(*   line: [page, spans]                                                   *)
(*   doc:  [npages, height, lines]      (get_toc() is the variable toc)    *)
(* hasSize = FALSE stands for a span whose "size" is None.                 *)
(***************************************************************************)
Span(t, sz, f, bb) ==
    [text |-> t, size |-> sz, hasSize |-> TRUE, font |-> f, bbox |-> bb]

Range(f) == {f[i] : i \in DOMAIN f}

Min2(a, b) == IF a <= b THEN a ELSE b
Max2(a, b) == IF a >= b THEN a ELSE b
Abs(a) == IF a >= 0 THEN a ELSE -a

\* list.sort(key=...): a stable sort, Less the strict order of the keys
StableSort(seq, Less(_, _)) ==
    Let(seq, LAMBDA s :
        LET pos(i) == 1 + Cardinality({j \in DOMAIN s :
                            \/ Less(s[j], s[i])
                            \/ (~Less(s[i], s[j]) /\ j < i)})
        IN  SubSeq([p \in DOMAIN s |-> s[CHOOSE i \in DOMAIN s : pos(i) = p]], 1, Len(s)))

RECURSIVE Flatten(_)
Flatten(ss) == IF ss = <<>> THEN <<>> ELSE Head(ss) \o Flatten(Tail(ss))

SelectIdx(seq, Test(_)) ==
    Let(seq, LAMBDA s :
        LET F[i \in 0..Len(s)] ==
                IF i = 0 THEN <<>>
                ELSE IF Test(i) THEN Append(F[i-1], s[i]) ELSE F[i-1]
        IN  F[Len(s)])

(***************************************************************************)
(* helper.py: PDFHeadingAnalyzer                                           *)
(*   Heading: [text, page, bbox, font_size, font_name, src]; level and     *)
(*   confidence stay "" and 0.0 on every Heading and are left out; src is  *)
(*   a history field, the indices of the document lines the text is from.  *)
(***************************************************************************)
fragments ==
    { <<"q","u","e","s","t"," ","f">>, <<"r"," ","p","r">>, <<"o","p","o","s","a","l">>, <<"r","f","p",":">>, <<"r","e","q","u","e","s","t"," ","f">>, <<"q","u","e","s","t"," ","f","o","r"," ","p","r">>,
      <<"r"," ","p","r","o","p","o","s","a","l">>, <<"f","o","r"," ","p","r">>, <<"p","r">>, <<"q","u","e","s","t">>, <<"e","q","u","e","s","t">>, <<"r">>, <<"f">>,
      <<"q","u","e","s","t"," ","f","o","r">>, <<"p","r","o","p","o","s","a","l">>, <<"p","r","e","s","e","n","t">>, <<"d","e","v","e","l","o","p","i","n","g">>, <<"b","u","s","i","n","e","s","s">>,
      <<"p","l","a","n">>, <<"o","n","t","a","r","i","o">>, <<"d","i","g","i","t","a","l">>, <<"l","i","b","r","a","r","y">> }

\* the patterns of _is_header_or_footer; the pattern of the copyright sign is
\* left out, no text of the model holds that character
header_footer_patterns ==
    << <<Many(DigitC, 1), End>>,
       <<Lit(<<"p","a","g","e">>), Many(SpaceC, 1), Many(DigitC, 1)>>,
       <<Many(DigitC, 1), Many(SpaceC, 0), Lit(<<"/">>), Many(SpaceC, 0), Many(DigitC, 1), End>>,
       <<Lit(<<"c","o","p","y","r","i","g","h","t">>)>>,
       <<Lit(<<"a","l","l"," ","r","i","g","h","t","s"," ","r","e","s","e","r","v","e","d">>)>>,
       <<Many(WordC, 1), Lit(<<".","c","o","m">>)>>,
       <<Many(WordC, 1), Lit(<<".","o","r","g">>)>>,
       <<Many(WordC, 1), Lit(<<".","n","e","t">>)>>,
       <<Lit(<<"w","w","w",".">>)>>,
       <<Lit(<<"h","t","t","p">>), Opt(<<"s">>), Lit(<<":","/","/">>)>>,
       <<Lit(<<"d","r","a","f","t">>), End>>,
       <<Lit(<<"c","o","n","f","i","d","e","n","t","i","a","l">>), End>>,
       <<Lit(<<"p","r","o","p","r","i","e","t","a","r","y">>), End>> >>

\* y < 0.1 * page_height or y > 0.9 * page_height, or a header/footer pattern
IsHeaderOrFooter(text, bbox, page_height) ==
    \/ 10 * bbox[2] < page_height
    \/ 10 * bbox[2] > 9 * page_height
    \/ \E p \in DOMAIN header_footer_patterns :
          ReMatch(header_footer_patterns[p], Strip(StrLower(text)))

\* the checks of _is_potential_heading before the font-size check
PassesTextChecks(text, line_bbox, page_height) ==
    Let(line_bbox, LAMBDA bbox :
        /\ Len(text) >= 3
        /\ Len(text) <= 200
        /\ Strip(StrLower(text)) \notin fragments
        /\ ~(Len(text) < 5 /\ ~IsUpper(text))
        /\ ~(Len(text) < 8 /\ (\A i \in DOMAIN text : LowerOf(text[i]) \notin VowelC)
                           /\ ~IsUpper(text))
        /\ text[1] \notin LowerC
        /\ ~IsHeaderOrFooter(text, bbox, page_height))

\* the spans of a line that _extract_page_headings keeps: those with text
TextSpans(line) ==
    SelectIdx(line.spans, LAMBDA i : Strip(line.spans[i].text) # <<>>)

RECURSIVE JoinSpans(_)
JoinSpans(spans) ==
    IF spans = <<>> THEN <<>>
    ELSE Strip(Head(spans).text) \o <<" ">> \o JoinSpans(Tail(spans))

LineText(line) == Strip(JoinSpans(TextSpans(line)))

LineBBox(line) ==
    Let(TextSpans(line), LAMBDA sp :
        << CHOOSE v \in {sp[i].bbox[1] : i \in DOMAIN sp} : \A i \in DOMAIN sp : v <= sp[i].bbox[1],
           CHOOSE v \in {sp[i].bbox[2] : i \in DOMAIN sp} : \A i \in DOMAIN sp : v <= sp[i].bbox[2],
           CHOOSE v \in {sp[i].bbox[3] : i \in DOMAIN sp} : \A i \in DOMAIN sp : v >= sp[i].bbox[3],
           CHOOSE v \in {sp[i].bbox[4] : i \in DOMAIN sp} : \A i \in DOMAIN sp : v >= sp[i].bbox[4] >>)

LineMaxSize(line) ==
    Let(TextSpans(line), LAMBDA sp :
        CHOOSE v \in {sp[i].size : i \in DOMAIN sp} : \A i \in DOMAIN sp : v >= sp[i].size)

\* max(set(font_names), key=font_names.count)
LineFont(line) ==
    Let(TextSpans(line), LAMBDA sp :
        LET cnt(f) == Cardinality({i \in DOMAIN sp : sp[i].font = f})
        IN  CHOOSE f \in {sp[i].font : i \in DOMAIN sp} :
                \A i \in DOMAIN sp : cnt(f) >= cnt(sp[i].font))

\* the line reaches the comparison max(font_sizes) < 8 with a size of None
\* among font_sizes: a TypeError
LineRaises(line, page_height) ==
    Let(LineText(line), LAMBDA text :
        /\ text # <<>>
        /\ PassesTextChecks(text, LineBBox(line), page_height)
        /\ Let(TextSpans(line), LAMBDA sp : \E i \in DOMAIN sp : ~sp[i].hasSize))

IsPotentialHeading(line, page_height) ==
    Let(LineText(line), LAMBDA text :
        /\ text # <<>>
        /\ PassesTextChecks(text, LineBBox(line), page_height)
        /\ ~(LineMaxSize(line) < 8))

\* _extract_page_headings over every page: the candidate of line i of the document
HeadingOf(doc, i) ==
    [text |-> LineText(doc.lines[i]), page |-> doc.lines[i].page,
     bbox |-> LineBBox(doc.lines[i]), font_size |-> LineMaxSize(doc.lines[i]),
     font_name |-> LineFont(doc.lines[i]), src |-> {i}]

ExtractAllHeadings(doc) ==
    LET F[i \in 0..Len(doc.lines)] ==
            IF i = 0 THEN <<>>
            ELSE IF IsPotentialHeading(doc.lines[i], doc.height)
                 THEN Append(F[i-1], HeadingOf(doc, i))
                 ELSE F[i-1]
    IN  F[Len(doc.lines)]

\* _extract_page_headings raises on some line of the document
ExtractRaises(doc) ==
    \E i \in DOMAIN doc.lines : LineRaises(doc.lines[i], doc.height)

\* key=lambda x: (x.page, x.bbox[1])
PageTopLess(a, b) ==
    \/ a.page < b.page
    \/ (a.page = b.page /\ a.bbox[2] < b.bbox[2])

\* _should_merge with a limit of 5 points on the vertical distance
ShouldMergeWithin5(heading1, heading2) ==
    /\ heading1.page = heading2.page
    /\ Abs(heading1.font_size - heading2.font_size) <= 1
    /\ heading1.font_name = heading2.font_name
    /\ Abs(heading2.bbox[2] - heading1.bbox[4]) <= 5
    /\ Len(heading1.text) + Len(heading2.text) + 1 <= 300

ShouldMerge(heading1, heading2) ==
    /\ heading1.page = heading2.page
    /\ Abs(heading1.font_size - heading2.font_size) <= 1
    /\ heading1.font_name = heading2.font_name
    /\ Abs(heading2.bbox[2] - heading1.bbox[4]) <= 30
    /\ Len(heading1.text) + Len(heading2.text) + 1 <= 300

\* the inner while loop: the first j after i that does not merge with headings[i]
RECURSIVE RunEnd(_, _, _)
RunEnd(headings, i, j) ==
    IF j <= Len(headings) /\ ShouldMerge(headings[i], headings[j])
    THEN RunEnd(headings, i, j + 1)
    ELSE j

\* the text and bounding box accumulated over headings[i+1 .. j-1]
RECURSIVE MergedText(_, _, _)
MergedText(headings, i, j) ==
    IF j = i + 1 THEN headings[i].text
    ELSE MergedText(headings, i, j - 1) \o <<" ">> \o headings[j-1].text

RECURSIVE MergedBBox(_, _, _)
MergedBBox(headings, i, j) ==
    IF j = i + 1 THEN headings[i].bbox
    ELSE Let(MergedBBox(headings, i, j - 1), LAMBDA b :
         Let(headings[j-1].bbox, LAMBDA n :
             <<Min2(b[1], n[1]), Min2(b[2], n[2]), Max2(b[3], n[3]), Max2(b[4], n[4])>>))

RECURSIVE MergeFrom(_, _)
MergeFrom(headings, i) ==
    IF i > Len(headings) THEN <<>>
    ELSE Let(RunEnd(headings, i, i + 1), LAMBDA j :
             << [text |-> Strip(MergedText(headings, i, j)),
                 page |-> headings[i].page,
                 bbox |-> MergedBBox(headings, i, j),
                 font_size |-> headings[i].font_size,
                 font_name |-> headings[i].font_name,
                 src |-> UNION {headings[k].src : k \in i..(j-1)}] >>
             \o MergeFrom(headings, j))

MergeAdjacentHeadings(headings) ==
    Let(StableSort(headings, PageTopLess), LAMBDA sorted : MergeFrom(sorted, 1))

(***************************************************************************)
(* The classifier.  Scores are in hundredths.  font_score is               *)
(* (font_size - mean) / (std + 1e-6) with mean = sum/n and, for n > 1,     *)
(* std = sqrt(n*sumsq - sum^2)/n (numpy's population std), for n = 1       *)
(* std = 1; so font_score = D / (sqrt(V) + n*1e-6) with D = n*size - sum   *)
(* and V = n*sumsq - sum^2 (V = 1 for n = 1, where D = 0).  A comparison   *)
(* font_score > a/b is decided on D, V, a, b in integers.                  *)
(* The arithmetic is exact: the rounding of the floating-point sums is not *)
(* modelled.                                                               *)
(***************************************************************************)
RECURSIVE SumSizes(_)
SumSizes(headings) ==
    IF headings = <<>> THEN 0
    ELSE Head(headings).font_size + SumSizes(Tail(headings))

RECURSIVE SumSquares(_)
SumSquares(headings) ==
    IF headings = <<>> THEN 0
    ELSE Head(headings).font_size * Head(headings).font_size + SumSquares(Tail(headings))

\* mean_size and std_size, as [n, sum, v]
FontStats(headings) ==
    Let(Len(headings), LAMBDA n :
    Let(SumSizes(headings), LAMBDA sum :
        [n |-> n, sum |-> sum,
         v |-> IF n > 1 THEN n * SumSquares(headings) - sum * sum ELSE 1]))

FontD(heading, stats) == stats.n * heading.font_size - stats.sum

\* font_score > a/b, for b > 0; the 1e-6 decides the ties
FontScoreGT(d, v, a, b) ==
    IF a >= 0
    THEN d > 0 /\ (b * d) * (b * d) > a * a * v
    ELSE d >= 0 \/ (b * d) * (b * d) <= a * a * v

numbered1 == <<Many(DigitC, 1), Opt(<<".">>), Many(SpaceC, 1)>>
numbered2 == <<Many(DigitC, 1), Lit(<<".">>), Many(DigitC, 1), Opt(<<".">>), Many(SpaceC, 1)>>
numbered3 == <<Many(DigitC, 1), Lit(<<".">>), Many(DigitC, 1), Lit(<<".">>), Many(DigitC, 1),
               Opt(<<".">>), Many(SpaceC, 1)>>
keywords == {<<"c","h","a","p","t","e","r">>, <<"s","e","c","t","i","o","n">>, <<"p","a","r","t">>, <<"i","n","t","r","o","d","u","c","t","i","o","n">>, <<"c","o","n","c","l","u","s","i","o","n">>}

AnalyzeTextPatterns(text) ==
    (IF ReMatch(numbered1, text) THEN 100
     ELSE IF ReMatch(numbered2, text) THEN 80
     ELSE IF ReMatch(numbered3, text) THEN 60 ELSE 0)
    + (IF IsTitle(text) THEN 60 ELSE 0)
    + (IF IsUpper(text) /\ WordCount(text) <= 8 THEN 70 ELSE 0)
    + (IF WordCount(text) > 20 THEN -80 ELSE IF WordCount(text) > 15 THEN -50 ELSE 0)
    + (IF \E w \in keywords : Contains(StrLower(text), w) THEN 80 ELSE 0)

AnalyzeTypography(font_name) ==
    IF font_name = <<>> THEN 0
    ELSE IF \E w \in {<<"b","o","l","d">>, <<"b","l","a","c","k">>, <<"h","e","a","v","y">>} : Contains(StrLower(font_name), w)
         THEN 100
    ELSE IF \E w \in {<<"m","e","d","i","u","m">>, <<"s","e","m","i">>} : Contains(StrLower(font_name), w)
         THEN 50
    ELSE 0

AnalyzePosition(bbox, page) ==
    (IF 100 < bbox[2] /\ bbox[2] < 250 THEN 50 ELSE 0)
    + (IF page = 1 THEN 30 ELSE 0)

\* 1000 * (0.3*pattern_score + 0.2*format_score + 0.1*position_score)
RestScore(heading) ==
    3 * AnalyzeTextPatterns(heading.text)
    + 2 * AnalyzeTypography(heading.font_name)
    + AnalyzePosition(heading.bbox, heading.page)

\* font_score > x/10
FontGT(heading, stats, x) == FontScoreGT(FontD(heading, stats), stats.v, x, 10)

\* total_score > x/1000, total_score = 0.4*font_score + the rest
TotalGT(heading, stats, x) ==
    FontScoreGT(FontD(heading, stats), stats.v, (x - RestScore(heading)) \div 10, 40)

\* _calculate_heading_level, altered: a variant whose H2 rule reads the font score
\* the wrong way round (font_score < 1.0)
CalculateHeadingLevelFlipped(heading, stats) ==
    IF TotalGT(heading, stats, 1500) \/ FontGT(heading, stats, 20) THEN "H1"
    ELSE IF TotalGT(heading, stats, 800) \/ ~FontGT(heading, stats, 10) THEN "H2"
    ELSE IF TotalGT(heading, stats, 300) \/ FontGT(heading, stats, 5) THEN "H3"
    ELSE ""

\* _calculate_heading_level with the H2 rule tried before the H1 rule
CalculateHeadingLevelH2First(heading, stats) ==
    IF TotalGT(heading, stats, 800) \/ FontGT(heading, stats, 10) THEN "H2"
    ELSE IF TotalGT(heading, stats, 1500) \/ FontGT(heading, stats, 20) THEN "H1"
    ELSE IF TotalGT(heading, stats, 300) \/ FontGT(heading, stats, 5) THEN "H3"
    ELSE ""

\* the level _calculate_heading_level returns
CalculateHeadingLevel(heading, stats) ==
    IF TotalGT(heading, stats, 1500) \/ FontGT(heading, stats, 20) THEN "H1"
    ELSE IF TotalGT(heading, stats, 800) \/ FontGT(heading, stats, 10) THEN "H2"
    ELSE IF TotalGT(heading, stats, 300) \/ FontGT(heading, stats, 5) THEN "H3"
    ELSE ""

\* the confidence _calculate_heading_level returns exceeds x/1000:
\* min(cap, base + 0.1 * total_score) > x/1000
ConfidenceGT(heading, stats, x) ==
    Let(CalculateHeadingLevel(heading, stats), LAMBDA level :
        IF level = "" THEN 0 > x
        ELSE /\ (CASE level = "H1" -> 950 [] level = "H2" -> 900 [] OTHER -> 850) > x
             /\ TotalGT(heading, stats,
                        10 * (x - (CASE level = "H1" -> 700 [] level = "H2" -> 600 [] OTHER -> 500))))

\* total_score < x/1000
TotalLT(heading, stats, x) ==
    FontScoreGT(-FontD(heading, stats), stats.v, -((x - RestScore(heading)) \div 10), 40)

\* the confidence _calculate_heading_level returns is below x/1000
ConfidenceLT(heading, stats, x) ==
    Let(CalculateHeadingLevel(heading, stats), LAMBDA level :
        IF level = "" THEN 0 < x
        ELSE \/ (CASE level = "H1" -> 950 [] level = "H2" -> 900 [] OTHER -> 850) < x
             \/ TotalLT(heading, stats,
                        10 * (x - (CASE level = "H1" -> 700 [] level = "H2" -> 600 [] OTHER -> 500))))

\* key=lambda x: x["page"]
PageLess(a, b) == a.page < b.page

\* title detection of _classify_headings: the first largest page-1 heading
HelperTitle(sorted) ==
    Let({i \in DOMAIN sorted : sorted[i].page = 1}, LAMBDA p1 :
        IF p1 = {} THEN <<>>
        ELSE sorted[CHOOSE i \in p1 :
                        /\ \A j \in p1 : sorted[j].font_size <= sorted[i].font_size
                        /\ \A j \in p1 : j < i => sorted[j].font_size < sorted[i].font_size].text)

\* _classify_headings: {"title", "outline"}; every outline entry carries the
\* history field src of its heading
ClassifyHeadings(headings) ==
    IF headings = <<>> THEN [title |-> <<>>, outline |-> <<>>]
    ELSE Let(FontStats(headings), LAMBDA stats :
         Let(StableSort(headings, PageTopLess), LAMBDA sorted :
         Let(HelperTitle(sorted), LAMBDA title :
             LET F[i \in 0..Len(sorted)] ==
                     IF i = 0 THEN <<>>
                     ELSE Let(CalculateHeadingLevel(sorted[i], stats), LAMBDA level :
                              IF /\ sorted[i].text # title
                                 /\ level # ""
                                 /\ ConfidenceGT(sorted[i], stats, 300)
                              THEN Append(F[i-1], [level |-> level, text |-> sorted[i].text,
                                                   page |-> sorted[i].page, src |-> sorted[i].src])
                              ELSE F[i-1])
             IN  [title |-> title, outline |-> StableSort(F[Len(sorted)], PageLess)])))

\* analyze_pdf_from_doc, when no line raises
AnalyzePdfFromDoc(doc) ==
    ClassifyHeadings(MergeAdjacentHeadings(ExtractAllHeadings(doc)))

(***************************************************************************)
(* main.py: PDFOutlineExtractor                                            *)
(***************************************************************************)
\* the patterns are matched with re.IGNORECASE: against the lower-cased text
h1_patterns ==
    << <<Lit(<<"c","h","a","p","t","e","r">>), Many(SpaceC, 1), Many(DigitC, 1)>>,
       <<Lit(<<"a","p","p","e","n","d","i","x">>)>>,
       <<Many(DigitC, 1), Lit(<<".">>), Many(SpaceC, 1), One(LowerC)>>,
       <<Lit(<<"s","u","m","m","a","r","y">>), End>>,
       <<Lit(<<"b","a","c","k","g","r","o","u","n","d">>), End>>,
       <<Lit(<<"i","n","t","r","o","d","u","c","t","i","o","n">>), End>>,
       <<Lit(<<"o","v","e","r","v","i","e","w">>), End>>,
       <<Lit(<<"c","o","n","c","l","u","s","i","o","n">>), End>>,
       <<Lit(<<"r","e","f","e","r","e","n","c","e","s">>), End>>,
       <<Lit(<<"a","c","k","n","o","w","l","e","d","g","e","m","e","n","t">>), Opt(<<"s">>), End>>,
       <<Lit(<<"t","a","b","l","e">>), Many(SpaceC, 1), Lit(<<"o","f">>), Many(SpaceC, 1), Lit(<<"c","o","n","t","e","n","t","s">>), End>>,
       <<Lit(<<"r","e","v","i","s","i","o","n">>), Many(SpaceC, 1), Lit(<<"h","i","s","t","o","r","y">>), End>>,
       <<Lit(<<"p","h","a","s","e">>), Many(SpaceC, 1), One({"i", "1", "2", "3"})>>,
       <<One(LowerC), Many(LowerC \cup SpaceC, 10), End>>,
       <<Lit(<<"p","a","t","h","w","a","y">>), Many(SpaceC, 1), Lit(<<"o","p","t","i","o","n","s">>), End>>,
       <<Lit(<<"h","o","p","e">>), Many(SpaceC, 1), Lit(<<"t","o">>), Many(SpaceC, 1), Lit(<<"s","e","e">>),
         Many(SpaceC, 1), Lit(<<"y","o","u">>), Many(SpaceC, 1), Lit(<<"t","h","e","r","e","!">>), End>> >>

h2_patterns ==
    << <<Many(DigitC, 1), Lit(<<".">>), Many(DigitC, 1), Many(SpaceC, 1), One(LowerC)>> >>

h3_patterns ==
    << <<Many(DigitC, 1), Lit(<<".">>), Many(DigitC, 1), Lit(<<".">>), Many(DigitC, 1),
         Many(SpaceC, 1), One(LowerC)>>,
       <<One(LowerC), Many(LowerC \cup SpaceC, 1), Lit(<<":">>), Many(SpaceC, 0), End>> >>

form_keywords ==
    { <<"a","p","p","l","i","c","a","t","i","o","n"," ","f","o","r","m">>, <<"g","r","a","n","t"," ","o","f"," ","l","t","c">>, <<"g","o","v","e","r","n","m","e","n","t"," ","s","e","r","v","a","n","t">>,
      <<"d","e","s","i","g","n","a","t","i","o","n">>, <<"s","e","r","v","i","c","e"," ","b","o","o","k">>, <<"s","i","g","n","a","t","u","r","e">> }

MatchesAny(patterns, text) ==
    \E p \in DOMAIN patterns : ReMatch(patterns[p], StrLower(text))

\* the concatenation of the span texts of a line
RECURSIVE ConcatSpans(_)
ConcatSpans(spans) ==
    IF spans = <<>> THEN <<>> ELSE Head(spans).text \o ConcatSpans(Tail(spans))

\* page.get_text() of the pages 1..upto, every line followed by a newline
RECURSIVE PagesText(_, _, _)
PagesText(doc, i, upto) ==
    IF i > Len(doc.lines) THEN <<>>
    ELSE (IF doc.lines[i].page <= upto
          THEN ConcatSpans(doc.lines[i].spans) \o <<"\n">> ELSE <<>>)
         \o PagesText(doc, i + 1, upto)

FormScore(doc) ==
    Let(StrLower(PagesText(doc, 1, Min2(3, doc.npages))), LAMBDA text :
        Cardinality({kw \in form_keywords : Contains(text, kw)})
        + (IF Len(text) < 800 THEN 1 ELSE 0)
        + (IF Contains(text, <<"l","t","c">>) /\ Contains(text, <<"a","d","v","a","n","c","e">>) THEN 2 ELSE 0))

\* _is_form_document, altered: a variant whose threshold is off by one
IsFormDocumentStrict(doc) ==
    IF doc.npages > 5 THEN FALSE ELSE FormScore(doc) > 3

IsFormDocument(doc) ==
    IF doc.npages > 5 THEN FALSE ELSE FormScore(doc) >= 3

\* _process_toc, altered: a variant that maps every level of 3 or more to H2
TocLevelDeep2(level) ==
    IF level = 1 THEN "H1" ELSE "H2"

TocLevel(level) ==
    IF level = 1 THEN "H1" ELSE IF level = 2 THEN "H2" ELSE "H3"

\* _process_toc, altered: a variant that keeps the native page
TocPageNative(page) == page

TocPage(page) == Max2(1, page)

\* _process_toc; toc entries are <<level, title, page>>
ProcessToc(toc) ==
    LET F[i \in 0..Len(toc)] ==
            IF i = 0 THEN <<>>
            ELSE IF Len(Strip(toc[i][2])) < 3 THEN F[i-1]
            ELSE Append(F[i-1], [level |-> TocLevel(toc[i][1]),
                                 text |-> Strip(toc[i][2]),
                                 page |-> TocPage(toc[i][3]),
                                 src |-> {}])
    IN  F[Len(toc)]

PatternLevel(str) ==
    Let(str, LAMBDA text :
        IF MatchesAny(h1_patterns, text) THEN "H1"
        ELSE IF MatchesAny(h2_patterns, text) THEN "H2"
        ELSE IF MatchesAny(h3_patterns, text) THEN "H3"
        ELSE "")

\* _extract_headings_pattern_only
ExtractHeadingsPatternOnly(doc) ==
    LET F[i \in 0..Len(doc.lines)] ==
            IF i = 0 THEN [headings |-> <<>>, seen |-> {}]
            ELSE Let(F[i-1], LAMBDA acc :
                 Let(Strip(ConcatSpans(doc.lines[i].spans)), LAMBDA text :
                 Let(PatternLevel(text), LAMBDA level :
                     IF StrLower(text) \in acc.seen \/ Len(text) < 3 THEN acc
                     ELSE IF level = "" THEN acc
                     ELSE [headings |-> Append(acc.headings,
                                [level |-> level, text |-> text,
                                 page |-> doc.lines[i].page, src |-> {i}]),
                           seen |-> acc.seen \cup {StrLower(text)}])))
    IN  F[Len(doc.lines)].headings

\* re.sub(r'(.)\1{3,}', r'\1', text): a run of 4 or more equal characters
\* (newline excepted) becomes one character
RECURSIVE CollapseRuns(_, _)
CollapseRuns(s, i) ==
    Let({j \in i..Len(s) : RunLen(s, j, {s[j]}) >= 4 /\ s[j] # "\n"}, LAMBDA starts :
        IF starts = {} THEN SubSeq(s, i, Len(s))
        ELSE Let(Least(starts), LAMBDA j :
             Let(j + RunLen(s, j, {s[j]}), LAMBDA e :
                 SubSeq(s, i, j) \o CollapseRuns(s, e))))

\* re.sub(r'([a-z])([A-Z])', r'\1 \2', text)
RECURSIVE SplitCamel(_, _)
SplitCamel(s, i) ==
    Let({j \in i..(Len(s) - 1) : s[j] \in LowerC /\ s[j+1] \in UpperC}, LAMBDA starts :
        IF starts = {} THEN SubSeq(s, i, Len(s))
        ELSE Let(Least(starts), LAMBDA j :
                 SubSeq(s, i, j) \o <<" ">> \o SplitCamel(s, j + 1)))

\* re.sub(r'^[^\w\s]*', '', text) and re.sub(r'[^\w\s]*$', '', text)
StripNonWord(str) ==
    Let(str, LAMBDA s :
        Let({i \in DOMAIN s : s[i] \in WordC \cup SpaceC}, LAMBDA keep :
            IF keep = {} THEN <<>>
            ELSE SubSeq(s, CHOOSE i \in keep : \A j \in keep : i <= j,
                           CHOOSE i \in keep : \A j \in keep : j <= i)))

\* _clean_text
CleanText(text) ==
    IF text = <<>> THEN <<>>
    ELSE Let(text, LAMBDA t0 :
         Let(CollapseRuns(t0, 1), LAMBDA t1 :
         Let(ReSub(<<Many(SpaceC, 1)>>, <<" ">>, t1), LAMBDA t2 :
         Let(SplitCamel(t2, 1), LAMBDA t3 :
             Strip(StripNonWord(t3))))))

\* _cleanup_extracted_title, the substitutions before the reconstruction
CleanupSubstitutions(title) ==
    Let(ReSubPlus(<<Lit(<<"R","F","P",":">>), Many(SpaceC, 0), Lit(<<"R">>), Many(SpaceC, 0)>>, <<"R","F","P",":">>, title), LAMBDA t1 :
    Let(ReSubPlus(<<Lit(<<"q","u","e","s","t">>), Many(SpaceC, 0), Lit(<<"f">>), Many(SpaceC, 0)>>, <<"q","u","e","s","t"," ","f","o","r"," ">>, t1), LAMBDA t2 :
    Let(ReSub(<<Lit(<<"R">>), Many(SpaceC, 0), Lit(<<"q","u","e","s","t">>), Many(SpaceC, 0), Lit(<<"f","o">>), Opt(<<"r">>)>>, <<"R","e","q","u","e","s","t"," ","f","o","r">>, t2), LAMBDA t3 :
    Let(ReSub(<<Lit(<<"e","q","u","e","s","t">>)>>, <<"R","e","q","u","e","s","t">>, t3), LAMBDA t4 :
    Let(ReSub(<<Lit(<<"P","r">>), Many(SpaceC, 0), Lit(<<"o","p","o","s","a","l">>)>>, <<"P","r","o","p","o","s","a","l">>, t4), LAMBDA t5 :
    Let(ReSub(<<Lit(<<"o","p","o","s","a","l">>)>>, <<"P","r","o","p","o","s","a","l">>, t5), LAMBDA t6 :
    Let(ReSubPlus(<<Many(SpaceC, 0), Lit(<<"r">>), Many(SpaceC, 0), Lit(<<"P","r">>), Many(SpaceC, 0)>>, <<" ">>, t6), LAMBDA t7 :
    Let(ReSub(<<Lit(<<"R","F","P",":">>), Many(SpaceC, 0), Lit(<<"R","F","P",":">>)>>, <<"R","F","P",":">>, t7), LAMBDA t8 :
        ReSub(<<Many(SpaceC, 1)>>, <<" ">>, t8)))))))))

FullRfpTitle ==
    <<"R","F","P",":","R","e","q","u","e","s","t"," ","f","o","r"," ","P","r","o","p","o","s","a","l"," ","T","o"," ","P","r","e","s","e","n","t"," ","a"," ","P","r","o","p","o","s","a","l"," ","f","o","r"," ","D","e","v","e","l","o","p","i","n","g"," ","t","h","e"," ","B","u","s","i","n","e","s","s"," ","P","l","a","n"," ","f","o","r"," ","t","h","e"," ","O","n","t","a","r","i","o"," ","D","i","g","i","t","a","l"," ","L","i","b","r","a","r","y">>

\* _cleanup_extracted_title, the fallback substitutions
CleanupFallback(title) ==
    Let(ReSub(<<Lit(<<"R","e","q","u","e","s","t">>), Many(SpaceC, 1), Lit(<<"f","o","r">>), Many(SpaceC, 1), Lit(<<"o">>), Many(SpaceC, 0), End>>, <<"R","e","q","u","e","s","t"," ","f","o","r"," ","P","r","o","p","o","s","a","l">>, title), LAMBDA t1 :
    Let(ReSub(<<Lit(<<"R","F","P",":">>), Many(SpaceC, 0), Lit(<<"R","e","q","u","e","s","t">>), Many(SpaceC, 1), Lit(<<"f","o","r">>), Many(SpaceC, 1), Lit(<<"o","p","o","s","a","l">>), Rest>>, <<"R","F","P",":","R","e","q","u","e","s","t"," ","f","o","r"," ","P","r","o","p","o","s","a","l">>, t1), LAMBDA t2 :
        ReSub(<<Lit(<<"q","u","e","s","t">>), Many(SpaceC, 1), Lit(<<"f","o","r">>), Many(SpaceC, 1), Lit(<<"P","r","o","p","o","s","a","l">>), Rest>>, <<"R","e","q","u","e","s","t"," ","f","o","r"," ","P","r","o","p","o","s","a","l">>, t2)))

\* _cleanup_extracted_title after the substitutions: title is the substituted
\* text, combined is title + " " + original, fixed the fallback substitutions
CleanupDecide(title, combined, fixed) ==
    IF /\ Contains(title, <<"R","F","P",":">>)
       /\ (Contains(title, <<"q","u","e","s","t">>) \/ Contains(title, <<"R","e","q","u","e","s","t">>))
       /\ (\/ Contains(combined, <<"R","e","q","u","e","s","t">>)
           \/ Contains(combined, <<"q","u","e","s","t">>)
           \/ Contains(combined, <<"e","q","u","e","s","t">>))
       /\ (Contains(combined, <<"P","r","o","p","o","s","a","l">>) \/ Contains(combined, <<"o","p","o","s","a","l">>))
    THEN FullRfpTitle
    ELSE IF /\ Contains(title, <<"R","F","P",":">>)
            /\ (Contains(title, <<"q","u","e","s","t">>) \/ Contains(title, <<"R","e","q","u","e","s","t">>))
            /\ (\/ Contains(combined, <<"R","e","q","u","e","s","t">>)
                \/ Contains(combined, <<"q","u","e","s","t">>)
                \/ Contains(combined, <<"e","q","u","e","s","t">>))
    THEN <<"R","F","P",":","R","e","q","u","e","s","t"," ","f","o","r"," ","P","r","o","p","o","s","a","l">>
    ELSE IF /\ Contains(fixed, <<"R","F","P",":">>)
            /\ (Contains(fixed, <<"R","e","q","u","e","s","t">>) \/ Contains(fixed, <<"q","u","e","s","t">>))
            /\ Contains(fixed, <<"P","r","o","p","o","s","a","l">>)
    THEN FullRfpTitle
    ELSE Strip(fixed)

CleanupWith(original, title) ==
    Let(CleanupFallback(title), LAMBDA fixed :
        CleanupDecide(title, title \o <<" ">> \o original, fixed))

\* _cleanup_extracted_title
CleanupExtractedTitle(title) ==
    Let(title, LAMBDA original :
        IF original = <<>> THEN <<>>
        ELSE Let(CleanupSubstitutions(original), LAMBDA t : CleanupWith(original, t)))

\* the spans of a line that are first at their rounded (x0, y0) position
UniqueSpans(line) ==
    SelectIdx(line.spans, LAMBDA i :
        ~\E j \in 1..(i-1) : /\ line.spans[j].bbox[1] = line.spans[i].bbox[1]
                             /\ line.spans[j].bbox[2] = line.spans[i].bbox[2])

SetMax(S) == CHOOSE v \in S : \A w \in S : w <= v

Page1(doc) == SelectIdx(doc.lines, LAMBDA i : doc.lines[i].page = 1)

\* max_font: the largest span size of page 1
MaxFont(doc) ==
    Let(Page1(doc), LAMBDA p1 :
        SetMax({0} \cup UNION {{p1[i].spans[k].size : k \in DOMAIN p1[i].spans} :
                                  i \in DOMAIN p1}))

\* max(max_font, span["size"]) or max(line_font_size, span["size"]) meets a
\* size of None on page 1: a TypeError
TitleRaises(doc) ==
    /\ doc.npages > 0
    /\ Let(Page1(doc), LAMBDA p1 :
           \E i \in DOMAIN p1 : \E k \in DOMAIN p1[i].spans : ~p1[i].spans[k].hasSize)

\* the text element built from a line of page 1
TitleElement(line) ==
    Let(UniqueSpans(line), LAMBDA u :
        [text |-> CleanText(ConcatSpans(u)),
         font_size |-> SetMax({0} \cup {u[k].size : k \in DOMAIN u}),
         y_pos |-> IF u = <<>> THEN 0 ELSE u[1].bbox[2],
         x_pos |-> IF u = <<>> THEN 0 ELSE u[1].bbox[1]])

page_number == <<Lit(<<"p","a","g","e">>), Many(SpaceC, 1), Many(DigitC, 1)>>

\* the test that admits a text element, max_font the largest size of page 1
IsSubstantial(el, max_font) ==
    /\ Len(el.text) > 2
    /\ 10 * el.font_size >= 6 * max_font
    /\ ~IsDigit(el.text)
    /\ ~ReMatch(page_number, StrLower(el.text))

\* text_elements: the lines of page 1 that are substantial
TextElementsOf(p1, max_font) ==
    LET F[i \in 0..Len(p1)] ==
            IF i = 0 THEN <<>>
            ELSE Let(TitleElement(p1[i]), LAMBDA el :
                     IF IsSubstantial(el, max_font) THEN Append(F[i-1], el) ELSE F[i-1])
    IN  F[Len(p1)]

TextElements(doc) ==
    Let(Page1(doc), LAMBDA p1 :
        Let(MaxFont(doc), LAMBDA max_font : TextElementsOf(p1, max_font)))

\* key=lambda x: (-x['font_size'], -x['y_pos'], x['x_pos'])
TitleOrderLess(a, b) ==
    \/ a.font_size > b.font_size
    \/ (a.font_size = b.font_size /\ a.y_pos > b.y_pos)
    \/ (a.font_size = b.font_size /\ a.y_pos = b.y_pos /\ a.x_pos < b.x_pos)

\* key=lambda x: (x['y_pos'], x['x_pos'])
ReadingOrderLess(a, b) ==
    \/ a.y_pos < b.y_pos
    \/ (a.y_pos = b.y_pos /\ a.x_pos < b.x_pos)

\* the similar-font elements among the first 10 of the sorted text elements
SimilarFont(elements, max_font) ==
    Let(elements, LAMBDA sorted :
        SelectIdx(SubSeq(sorted, 1, Min2(10, Len(sorted))), LAMBDA i :
            /\ 10 * sorted[i].font_size >= 9 * sorted[1].font_size
            /\ 10 * sorted[i].font_size >= 7 * max_font))

\* title_parts: the texts of the similar-font elements in reading order
TitlePartsOf(elements) ==
    Let(elements, LAMBDA inorder :
        SubSeq([i \in DOMAIN inorder |-> inorder[i].text], 1, Len(inorder)))

TitleParts(doc) ==
    Let(MaxFont(doc), LAMBDA max_font :
        TitlePartsOf(StableSort(
            SimilarFont(StableSort(TextElements(doc), TitleOrderLess), max_font),
            ReadingOrderLess)))

\* ' '.join(parts[:k]).strip()
RECURSIVE JoinParts(_, _)
JoinParts(parts, k) ==
    IF k = 0 THEN <<>>
    ELSE IF k = 1 THEN parts[1]
    ELSE JoinParts(parts, k - 1) \o <<" ">> \o parts[k]

\* the partial titles of the first 1..5 parts that read as an RFP title
GoodPartials(parts) ==
    LET F[i \in 0..Min2(Len(parts), 5)] ==
            IF i = 0 THEN <<>>
            ELSE Let(CleanupExtractedTitle(Strip(JoinParts(parts, i))), LAMBDA cleaned_partial :
                     IF /\ Contains(cleaned_partial, <<"R","F","P",":">>)
                        /\ Contains(cleaned_partial, <<"P","r","o","p","o","s","a","l">>)
                        /\ Len(cleaned_partial) > 30
                     THEN Append(F[i-1], cleaned_partial) ELSE F[i-1])
    IN  F[Min2(Len(parts), 5)]

\* the choice among the cleaned full title, the partial titles and the first part
ChooseTitle(parts, cleaned, partials) ==
    IF Contains(cleaned, <<"R","F","P",":">>) /\ Len(cleaned) > 50 THEN cleaned
    ELSE IF partials # <<>> THEN partials[1]
    ELSE IF Len(cleaned) > 15 THEN cleaned
    ELSE CleanupExtractedTitle(parts[1])

TitleFromParts(title_parts) ==
    Let(title_parts, LAMBDA parts :
        IF parts = <<>> THEN <<>>
        ELSE Let(CleanupExtractedTitle(Strip(JoinParts(parts, Len(parts)))), LAMBDA cleaned :
             Let(GoodPartials(parts), LAMBDA partials :
                 ChooseTitle(parts, cleaned, partials))))

\* _extract_title_carefully, when it does not raise
ExtractTitleCarefully(doc) ==
    IF doc.npages = 0 THEN <<>>
    ELSE TitleFromParts(TitleParts(doc))

(***************************************************************************)
(* The inputs: the lines and table-of-contents entries documents are made  *)
(* of, and the bounds                                                      *)
(***************************************************************************)
MaxLines == 2
MaxToc == 3
MaxFiles == 2

PageHeights == {800}
PageCounts == {1, 2, 6}

NoSize(span) == [span EXCEPT !.hasSize = FALSE]

LineCat ==
    { [page |-> 1, spans |-> <<Span(<<"A","n","n","u","a","l"," ","R","e","p","o","r","t">>, 24, <<"A","r","i","a","l","-","B","o","l","d">>, <<72, 50, 300, 74>>)>>],
      [page |-> 2, spans |-> <<Span(<<"A","n","n","u","a","l"," ","R","e","p","o","r","t">>, 24, <<"A","r","i","a","l","-","B","o","l","d">>, <<72, 120, 300, 144>>)>>],
      [page |-> 1, spans |-> <<Span(<<"1","."," ">>, 14, <<"A","r","i","a","l","-","B","o","l","d">>, <<72, 120, 90, 134>>),
                               Span(<<"I","n","t","r","o","d","u","c","t","i","o","n">>, 14, <<"A","r","i","a","l","-","B","o","l","d">>, <<90, 120, 200, 134>>)>>],
      [page |-> 2, spans |-> <<Span(<<"C","h","a","p","t","e","r"," ","1",":">>, 24, <<"A","r","i","a","l","-","B","o","l","d">>, <<72, 150, 240, 174>>)>>],
      [page |-> 1, spans |-> <<Span(<<"L","T","C"," ","A","d","v","a","n","c","e">>, 12, <<"A","r","i","a","l">>, <<72, 300, 160, 312>>)>>],
      [page |-> 1, spans |-> <<NoSize(Span(<<"S","u","m","m","a","r","y">>, 0, <<"A","r","i","a","l">>, <<72, 400, 130, 412>>))>>],
      [page |-> 2, spans |-> <<NoSize(Span(<<"S","u","m","m","a","r","y">>, 0, <<"A","r","i","a","l">>, <<72, 400, 130, 412>>))>>],
      [page |-> 2, spans |-> <<Span(<<"I","n","t","r","o","d","u","c","t","i","o","n">>, 12, <<"A","r","i","a","l">>, <<72, 750, 150, 762>>)>>] }

TocCat ==
    { <<1, <<"I","n","t","r","o","d","u","c","t","i","o","n">>, 2>>,
      <<2, <<"A","n","n","u","a","l"," ","R","e","p","o","r","t">>, 1>>,
      <<3, <<" ","S","c","o","p","e"," ">>, 0>>,
      <<4, <<"A",".">>, 3>> }

\* the sequences of at most n different elements of S
SeqsUpTo(S, n) ==
    UNION {{s \in [1..k -> S] : \A i, j \in 1..k : i # j => s[i] # s[j]} : k \in 0..n}

\* the lines of a document come page by page
LineSeqs ==
    {ls \in SeqsUpTo(LineCat, MaxLines) :
        \A i \in 1..(Len(ls) - 1) : ls[i].page <= ls[i+1].page}

\* every line of a document lies on one of its pages
Docs ==
    UNION {{[npages |-> n, height |-> h, lines |-> ls] :
                h \in PageHeights,
                ls \in {l \in LineSeqs : \A i \in DOMAIN l : l[i].page <= n}} :
           n \in PageCounts}

Tocs == SeqsUpTo(TocCat, MaxToc)

NoDoc == [npages |-> 0, height |-> 0, lines |-> <<>>]
NoResult == [keys |-> {}, title |-> <<>>, outline |-> <<>>]
ErrorResult == [keys |-> {"title", "outline"}, title |-> <<"E","r","r","o","r">>, outline |-> <<>>]

Entries(outline) ==
    [i \in DOMAIN outline |->
        [level |-> outline[i].level, text |-> outline[i].text, page |-> outline[i].page]]
Origins(outline) == [i \in DOMAIN outline |-> outline[i].src]

(***************************************************************************)
(* The state: main's loop over the input files, and extract_outline on the *)
(* current file.                                                           *)
(*   idx      the file main's loop is at (1-based)                         *)
(*   pc       the position in process_pdf_file / extract_outline           *)
(*   doc      the content of the current file, once opened                 *)
(*   toc      what doc.get_toc() returned                                  *)
(*   handle   the document handle: "none", "open", "closed"                *)
(*   outline  the local outline of extract_outline                         *)
(*   origin   history: for every outline entry the document lines it is of *)
(*   ran      history: the stages extract_outline has run on this file     *)
(*   result   what extract_outline returned                                *)
(*   written  the files whose result file has been written                 *)
(***************************************************************************)
VARIABLES idx, pc, doc, toc, handle, outline, origin, ran, result, written,
          fpc, cands, merged, remerged, levels, emitted,
          tpc, tin, tout

\* the state of main's batch loop and of the extract_outline call in progress
mvars == <<idx, pc, doc, toc, handle, outline, origin, ran, result, written>>

\* the state of a call of the merger or of the classifier on its own: the
\* position, the candidates passed in, the output of the first and of the
\* second merge pass, the levels assigned and the outline _classify_headings
\* returns
fvars == <<fpc, cands, merged, remerged, levels, emitted>>

\* the state of a call of a function of the title extractor on its own: the
\* position, the argument and the value returned
tvars == <<tpc, tin, tout>>

vars == <<mvars, fvars, tvars>>

NoCall ==
    /\ fpc = "none"
    /\ cands = <<>>
    /\ merged = <<>>
    /\ remerged = <<>>
    /\ levels = <<>>
    /\ emitted = <<>>

NoTitleCall ==
    /\ tpc = "none"
    /\ tin = <<>>
    /\ tout = <<>>

Init ==
    /\ idx = 1
    /\ pc = "open"
    /\ doc = NoDoc
    /\ toc = <<>>
    /\ handle = "none"
    /\ outline = <<>>
    /\ origin = <<>>
    /\ ran = {}
    /\ result = NoResult
    /\ written = {}
    /\ NoCall
    /\ NoTitleCall

\* except Exception: return {"title": "Error", "outline": []}
Caught ==
    /\ result' = ErrorResult
    /\ pc' = "write"

\* fitz.open(pdf_path) succeeds
Open ==
    /\ pc = "open"
    /\ \E d \in Docs : doc' = d
    /\ handle' = "open"
    /\ pc' = "form"
    /\ UNCHANGED <<idx, toc, outline, origin, ran, result, written>>
    /\ UNCHANGED <<fvars, tvars>>

\* fitz.open(pdf_path) raises: the file cannot be opened or parsed
OpenFails ==
    /\ pc = "open"
    /\ Caught
    /\ UNCHANGED <<idx, doc, toc, handle, outline, origin, ran, written>>
    /\ UNCHANGED <<fvars, tvars>>

\* if self._is_form_document(doc)
CheckForm ==
    /\ pc = "form"
    /\ IF IsFormDocument(doc)
       THEN /\ ran' = ran \cup {"form"}
            /\ pc' = "title"
       ELSE /\ ran' = ran
            /\ pc' = "toc"
    /\ UNCHANGED <<idx, doc, toc, handle, outline, origin, result, written>>
    /\ UNCHANGED <<fvars, tvars>>

\* toc = doc.get_toc(); if toc and len(toc) > 2: outline = self._process_toc(toc)
CheckToc ==
    /\ pc = "toc"
    /\ \E t \in Tocs : toc' = t
    /\ IF Len(toc') > 2
       THEN /\ outline' = Entries(ProcessToc(toc'))
            /\ origin' = Origins(ProcessToc(toc'))
            /\ ran' = ran \cup {"toc"}
            /\ pc' = "title"
       ELSE /\ UNCHANGED <<outline, origin, ran>>
            /\ pc' = "text"
    /\ UNCHANGED <<idx, doc, handle, result, written>>
    /\ UNCHANGED <<fvars, tvars>>

\* outline = self._extract_from_text(doc)
ExtractFromText ==
    /\ pc = "text"
    /\ \E raises \in {ExtractRaises(doc)} :
          /\ \E found \in {IF raises THEN ExtractHeadingsPatternOnly(doc)
                                     ELSE AnalyzePdfFromDoc(doc).outline} :
                /\ outline' = Entries(found)
                /\ origin' = Origins(found)
          /\ ran' = ran \cup (IF raises THEN {"text", "pattern"} ELSE {"text"})
    /\ pc' = "title"
    /\ UNCHANGED <<idx, doc, toc, handle, result, written>>
    /\ UNCHANGED <<fvars, tvars>>

\* title = self._extract_title_carefully(doc); doc.close(); return {...}
ExtractTitle ==
    /\ pc = "title"
    /\ ran' = ran \cup {"title"}
    /\ IF TitleRaises(doc)
       THEN /\ Caught
            /\ UNCHANGED handle
       ELSE /\ handle' = "closed"
            /\ result' = [keys |-> {"title", "outline"},
                          title |-> ExtractTitleCarefully(doc),
                          outline |-> IF "form" \in ran THEN <<>> ELSE outline]
            /\ pc' = "write"
    /\ UNCHANGED <<idx, doc, toc, outline, origin, written>>
    /\ UNCHANGED <<fvars, tvars>>

\* main's loop moves to the next file
NextFile ==
    /\ idx' = idx + 1
    /\ pc' = IF idx < MaxFiles THEN "open" ELSE "done"
    /\ doc' = NoDoc
    /\ toc' = <<>>
    /\ handle' = "none"
    /\ outline' = <<>>
    /\ origin' = <<>>
    /\ ran' = {}
    /\ result' = NoResult

\* with open(output_path, 'w') ...: json.dump(result, ...)
WriteResult ==
    /\ pc = "write"
    /\ written' = written \cup {idx}
    /\ NextFile
    /\ UNCHANGED <<fvars, tvars>>

\* open(output_path, 'w') or json.dump raises: nothing in process_pdf_file or
\* main catches it, main ends
WriteFails ==
    /\ pc = "write"
    /\ pc' = "crashed"
    /\ UNCHANGED <<idx, doc, toc, handle, outline, origin, ran, result, written>>
    /\ UNCHANGED <<fvars, tvars>>

Next ==
    \/ Open
    \/ OpenFails
    \/ CheckForm
    \/ CheckToc
    \/ ExtractFromText
    \/ ExtractTitle
    \/ WriteResult
    \/ WriteFails

Spec == Init /\ [][Next]_vars

(***************************************************************************)
(* The merger and the classifier called on their own.  No batch runs: the  *)
(* variables of main stay as NoBatch leaves them.                          *)
(***************************************************************************)
MaxCands == 3

NoBatch ==
    /\ idx = 1
    /\ pc = "done"
    /\ doc = NoDoc
    /\ toc = <<>>
    /\ handle = "none"
    /\ outline = <<>>
    /\ origin = <<>>
    /\ ran = {}
    /\ result = NoResult
    /\ written = {}

\* a Heading as _extract_page_headings builds it
Heading(t, p, bb, sz, f, n) ==
    [text |-> t, page |-> p, bbox |-> bb, font_size |-> sz, font_name |-> f, src |-> {n}]

\* a line of 121 characters: a capital letter and 24 words of four letters
LongLine(c) == <<c>> \o [i \in 1..120 |-> IF i % 5 = 1 THEN " " ELSE "x"]

\* candidates the filter admits: three lines in one font, the second 10 points
\* under the first and the third 18 points under the second, a larger line
\* further down, a line on the next page, a line in another font, and three
\* long lines 2 points apart on a third page
MergeCat ==
    { Heading(<<"C","h","a","p","t","e","r"," ","1",":">>, 1, <<72, 100, 200, 112>>, 12, <<"A","r","i","a","l","-","B","o","l","d">>, 1),
      Heading(<<"G","e","t","t","i","n","g"," ","S","t","a","r","t","e","d">>, 1, <<72, 122, 220, 134>>, 12, <<"A","r","i","a","l","-","B","o","l","d">>, 2),
      Heading(<<"O","v","e","r","v","i","e","w">>, 1, <<72, 160, 160, 172>>, 12, <<"A","r","i","a","l","-","B","o","l","d">>, 3),
      Heading(<<"B","a","c","k","g","r","o","u","n","d">>, 1, <<72, 300, 180, 314>>, 14, <<"A","r","i","a","l","-","B","o","l","d">>, 4),
      Heading(<<"M","e","t","h","o","d","s">>, 2, <<72, 100, 150, 112>>, 12, <<"A","r","i","a","l","-","B","o","l","d">>, 5),
      Heading(<<"R","e","s","u","l","t","s">>, 1, <<72, 190, 150, 203>>, 13, <<"A","r","i","a","l">>, 6),
      Heading(LongLine("A"), 3, <<72, 100, 540, 112>>, 12, <<"A","r","i","a","l">>, 7),
      Heading(LongLine("B"), 3, <<72, 114, 540, 126>>, 12, <<"A","r","i","a","l">>, 8),
      Heading(LongLine("C"), 3, <<72, 128, 540, 140>>, 12, <<"A","r","i","a","l">>, 9) }

InitMerge ==
    /\ NoBatch
    /\ fpc = "merge"
    /\ cands \in SeqsUpTo(MergeCat, MaxCands)
    /\ merged = <<>>
    /\ remerged = <<>>
    /\ levels = <<>>
    /\ emitted = <<>>
    /\ NoTitleCall

\* merged = self._merge_adjacent_headings(cands)
MergeOnce ==
    /\ fpc = "merge"
    /\ merged' = MergeAdjacentHeadings(cands)
    /\ fpc' = "merged"
    /\ UNCHANGED <<cands, remerged, levels, emitted>>
    /\ UNCHANGED <<mvars, tvars>>

\* remerged = self._merge_adjacent_headings(merged)
MergeAgain ==
    /\ fpc = "merged"
    /\ remerged' = MergeAdjacentHeadings(merged)
    /\ fpc' = "remerged"
    /\ UNCHANGED <<cands, merged, levels, emitted>>
    /\ UNCHANGED <<mvars, tvars>>

NextMerge ==
    \/ MergeOnce
    \/ MergeAgain

SpecMerge == InitMerge /\ [][NextMerge]_vars

\* candidates for the classifier: every combination of four font sizes, three
\* texts (title case, neither, numbered with a keyword), two fonts (bold or
\* not) and two positions
ClassSizes == <<10, 12, 14, 20>>
ClassTexts == <<<<"O","v","e","r","v","i","e","w">>, <<"s","u","m","m","a","r","y"," ","o","f"," ","r","e","s","u","l","t","s">>,
                <<"1","."," ","I","n","t","r","o","d","u","c","t","i","o","n">>>>
ClassFonts == <<<<"A","r","i","a","l">>, <<"A","r","i","a","l","-","B","o","l","d">>>>
ClassPlaces == << <<1, 120>>, <<2, 120>> >>

ClassCat ==
    [k \in 1..48 |->
        LET n  == k - 1
            sz == ClassSizes[(n % 4) + 1]
            t  == ClassTexts[((n \div 4) % 3) + 1]
            f  == ClassFonts[((n \div 12) % 2) + 1]
            pl == ClassPlaces[((n \div 24) % 2) + 1]
        IN  Heading(t, pl[1], <<72, pl[2], 300, pl[2] + sz>>, sz, f, k)]

\* the lists of candidates, one per multiset: the statistics and the level
\* of a candidate do not depend on the order of the list
CandLists ==
    UNION { { [i \in 1..n |-> ClassCat[c[i]]] :
                c \in { d \in [1..n -> 1..48] : \A i \in 1..(n-1) : d[i] <= d[i+1] } } :
            n \in 0..MaxCands }

InitClassify ==
    /\ NoBatch
    /\ fpc = "classify"
    /\ cands \in CandLists
    /\ merged = <<>>
    /\ remerged = <<>>
    /\ levels = <<>>
    /\ emitted = <<>>
    /\ NoTitleCall

\* _classify_headings(cands): mean_size, std_size over all headings, the level
\* _calculate_heading_level(heading, mean_size, std_size) gives each heading,
\* and the outline returned
Classify ==
    /\ fpc = "classify"
    /\ levels' = [i \in DOMAIN cands |-> CalculateHeadingLevel(cands[i], FontStats(cands))]
    /\ emitted' = ClassifyHeadings(cands).outline
    /\ fpc' = "classified"
    /\ UNCHANGED <<cands, merged, remerged>>
    /\ UNCHANGED <<mvars, tvars>>

NextClassify == Classify

SpecClassify == InitClassify /\ [][NextClassify]_vars

(***************************************************************************)
(* Claims about extract_outline and main, checked under Spec               *)
(***************************************************************************)
\* extract_outline has returned a result for the current file
Returned == pc \in {"write", "crashed"}

\* the condition of the form branch: at most 5 pages and a form score of 3 or more
FormCondition == doc.npages <= 5 /\ FormScore(doc) >= 3

\* the top of the bounding box of a document line lies in the top 10% or the
\* bottom 10% of the page height
InBand(line) ==
    \E k \in DOMAIN line.spans :
        /\ \A m \in DOMAIN line.spans : line.spans[k].bbox[2] <= line.spans[m].bbox[2]
        /\ \/ 10 * line.spans[k].bbox[2] < doc.height
           \/ 10 * line.spans[k].bbox[2] > 9 * doc.height

\* C1: the page numbers of the returned outline are non-decreasing from the
\* first entry to the last, on every path through extract_outline
C1_OutlinePagesNonDecreasing ==
    Returned =>
        \A i, j \in DOMAIN result.outline :
            i < j => result.outline[i].page <= result.outline[j].page

\* C2: no entry of the returned outline has the returned title as its text
C2_TitleNotInOutline ==
    Returned =>
        \A i \in DOMAIN result.outline : result.outline[i].text # result.title

\* C3: no entry of an outline returned by text analysis (scored pipeline or
\* pattern-only fallback) comes from a line whose bounding-box top lies in the
\* top 10% or the bottom 10% of the page
C3_BandLinesExcluded ==
    (Returned /\ "text" \in ran) =>
        \A i \in DOMAIN result.outline :
            \A l \in origin[i] : ~InBand(doc.lines[l])

\* C4: when the document cannot be opened, the result has the empty string as
\* title, an empty outline and an error field
C4_OpenFailureResult ==
    (Returned /\ handle = "none") =>
        /\ result.title = <<>>
        /\ result.outline = <<>>
        /\ "error" \in result.keys

\* C5: when main's loop has ended, every file after a file on which a step
\* failed has been processed and its result written
C5_LaterFilesWritten ==
    pc = "crashed" => \A f \in (idx + 1)..MaxFiles : f \in written

\* C6: a document with at most 5 pages and a form score of 3 or more gets the
\* result {title, outline: []}; its table of contents is never read and neither
\* the TOC mapping nor text analysis runs on it
C6_FormFirst ==
    (handle # "none" /\ FormCondition) =>
        /\ ran \cap {"toc", "text", "pattern"} = {}
        /\ toc = <<>>
        /\ outline = <<>>
        /\ Returned => (result.keys = {"title", "outline"} /\ result.outline = <<>>)

C6_Witness ==
    /\ pc = "write"
    /\ FormCondition
    /\ "form" \in ran
    /\ result.title = <<"L","T","C"," ","A","d","v","a","n","c","e">>
    /\ \E i \in DOMAIN doc.lines : doc.lines[i].spans[1].size = 24

\* extract_outline returned from its try block, not from its except clause
ReturnedNormally == Returned /\ handle = "closed"

\* the level a native TOC level maps to
MappedLevel(level) ==
    CASE level = 1 -> "H1" [] level = 2 -> "H2" [] OTHER -> "H3"

KeptToc == SelectIdx(toc, LAMBDA i : Len(Strip(toc[i][2])) >= 3)

C8_ResultShape ==
    Returned =>
        /\ result.keys = {"title", "outline"}
        /\ \A i \in DOMAIN result.title : result.title[i] \in STRING
        /\ \A i \in DOMAIN result.outline :
              /\ result.outline[i].level \in {"H1", "H2", "H3"}
              /\ result.outline[i].page \in Nat
              /\ result.outline[i].page >= 1

C8_Witness ==
    /\ pc = "write"
    /\ "pattern" \in ran
    /\ Len(result.outline) > 0
    /\ \E i \in DOMAIN result.outline : result.outline[i].level = "H1"

(***************************************************************************)
(* Claims about the merger, checked under SpecMerge                        *)
(***************************************************************************)
\* C9: a second pass of _merge_adjacent_headings over the output of the first
\* returns the same candidates: the same count, texts and bounding boxes
C9_MergeIdempotent ==
    fpc = "remerged" =>
        /\ Len(remerged) = Len(merged)
        /\ \A i \in DOMAIN remerged :
              i \in DOMAIN merged =>
                  /\ remerged[i].text = merged[i].text
                  /\ remerged[i].bbox = merged[i].bbox

(***************************************************************************)
(* Claims about the classifier, checked under SpecClassify                 *)
(***************************************************************************)
\* the ordering none < H3 < H2 < H1
LevelRank(level) ==
    CASE level = "H1" -> 3 [] level = "H2" -> 2 [] level = "H3" -> 1 [] OTHER -> 0

\* two candidates with identical pattern, format and position scores
SameOtherScores(a, b) ==
    /\ AnalyzeTextPatterns(a.text) = AnalyzeTextPatterns(b.text)
    /\ AnalyzeTypography(a.font_name) = AnalyzeTypography(b.font_name)
    /\ AnalyzePosition(a.bbox, a.page) = AnalyzePosition(b.bbox, b.page)

\* font_score(a) - font_score(b) > 1.0 under the statistics of the list
FontScoreHigherByOne(a, b) ==
    FontScoreGT(FontD(a, FontStats(cands)) - FontD(b, FontStats(cands)),
                FontStats(cands).v, 10, 10)

\* C10: of two candidates scored against the same statistics, with identical
\* pattern, format and position scores and font scores more than 1.0 apart,
\* the one with the higher font score never gets the lower level
C10_MonotoneInFontSize ==
    fpc = "classified" =>
        \A i, j \in DOMAIN cands :
            (SameOtherScores(cands[i], cands[j]) /\ FontScoreHigherByOne(cands[i], cands[j]))
                => LevelRank(levels[i]) >= LevelRank(levels[j])

C10_Witness ==
    /\ fpc = "classified"
    /\ \E i, j \in DOMAIN cands :
          /\ SameOtherScores(cands[i], cands[j])
          /\ FontScoreHigherByOne(cands[i], cands[j])
          /\ levels[i] = "H2"
          /\ levels[j] = ""

(***************************************************************************)
(* Claims about failures inside extract_outline, checked under Spec        *)
(***************************************************************************)
\* a line with a text run whose font size is None
Malformed(line) == \E k \in DOMAIN line.spans : ~line.spans[k].hasSize

\* the document without its malformed lines
WellFormedPart(d) ==
    [d EXCEPT !.lines = SelectIdx(d.lines, LAMBDA i : ~Malformed(d.lines[i]))]

\* C11: when the scored pipeline raised during text analysis, extract_outline
\* returns from its try block, with the title of _extract_title_carefully and
\* the outline of the pattern-only detector, and not with an error result
C11_FallbackNotSurfaced ==
    (Returned /\ "pattern" \in ran) =>
        /\ handle = "closed"
        /\ result # ErrorResult
        /\ result.title = ExtractTitleCarefully(doc)
        /\ result.outline = Entries(ExtractHeadingsPatternOnly(doc))

\* C12: a document with a text run that lacks a font size is analysed as the
\* document without the lines of such runs: extract_outline returns from its
\* try block with no error result, and the title and the outline of text
\* analysis are those of the other lines
C12_MalformedRunSkipped ==
    (Returned /\ handle # "none" /\ \E i \in DOMAIN doc.lines : Malformed(doc.lines[i])) =>
        /\ handle = "closed"
        /\ result # ErrorResult
        /\ result.title = ExtractTitleCarefully(WellFormedPart(doc))
        /\ "text" \in ran =>
              result.outline = Entries(AnalyzePdfFromDoc(WellFormedPart(doc)).outline)

\* C17: a one-page document whose single line is "1. Introduction" in a bold
\* font (its size is then the mean of the font sizes, whose deviation is 0) is
\* classified as H1 with a confidence of at least 0.7, and text analysis
\* returns it as an H1 entry
C17_NumberedBoldIntroIsH1 ==
    (/\ ReturnedNormally
     /\ "text" \in ran
     /\ "pattern" \notin ran
     /\ doc.npages = 1
     /\ Len(doc.lines) = 1
     /\ LineText(doc.lines[1]) = <<"1","."," ","I","n","t","r","o","d","u","c","t","i","o","n">>
     /\ AnalyzeTypography(LineFont(doc.lines[1])) = 100) =>
        /\ CalculateHeadingLevel(HeadingOf(doc, 1), FontStats(<<HeadingOf(doc, 1)>>)) = "H1"
        /\ ~ConfidenceLT(HeadingOf(doc, 1), FontStats(<<HeadingOf(doc, 1)>>), 700)
        /\ \E i \in DOMAIN result.outline :
              /\ result.outline[i].text = <<"1","."," ","I","n","t","r","o","d","u","c","t","i","o","n">>
              /\ result.outline[i].level = "H1"

\* C20: when extract_outline has returned, the handle it opened is closed, and
\* a closed handle is met only after extract_outline has returned: no step
\* that reads a page follows the close
C20_HandleClosedOnReturn ==
    /\ (Returned /\ handle # "none") => handle = "closed"
    /\ handle = "closed" => Returned

(***************************************************************************)
(* Further claims about the merger, checked under SpecMerge                *)
(***************************************************************************)
\* the candidates in the order _merge_adjacent_headings scans them
Scanned == StableSort(cands, PageTopLess)

\* the position in Scanned of the first candidate of the k-th output run
RECURSIVE RunStart(_)
RunStart(k) ==
    IF k = 1 THEN 1 ELSE RunStart(k - 1) + Cardinality(merged[k-1].src)

\* the bottom edge of the union of the bounding boxes of Scanned[a..b]
RunBottom(a, b) == SetMax({Scanned[j].bbox[4] : j \in a..b})

\* the tests of the merger other than the vertical gap
FitsRun(first, next) ==
    /\ first.page = next.page
    /\ Abs(first.font_size - next.font_size) <= 1
    /\ first.font_name = next.font_name
    /\ Len(first.text) + Len(next.text) + 1 <= 300

\* C13: every candidate _merge_adjacent_headings returns has a text of at most
\* 300 characters
C13_MergedTextAtMost300 ==
    fpc = "merged" => \A k \in DOMAIN merged : Len(merged[k].text) <= 300

\* C14: the gap that decides an absorption is the one between the bottom edge
\* of the run so far (the union of the boxes absorbed) and the top edge of the
\* candidate: every absorbed candidate lies within 30 points of the bottom of
\* its run so far, and a candidate that follows a run and passes the other
\* tests is left out only if it lies more than 30 points from the bottom of
\* that run
C14_GapFromRunBottom ==
    fpc = "merged" =>
        \A k \in DOMAIN merged :
            Let(RunStart(k), LAMBDA a :
            Let(a + Cardinality(merged[k].src) - 1, LAMBDA b :
                /\ \A j \in (a + 1)..b :
                      Abs(Scanned[j].bbox[2] - RunBottom(a, j - 1)) <= 30
                /\ (b < Len(Scanned) /\ FitsRun(Scanned[a], Scanned[b + 1])) =>
                      Abs(Scanned[b + 1].bbox[2] - RunBottom(a, b)) > 30))

\* the texts of Scanned[a..b] joined by single spaces
RECURSIVE JoinTexts(_, _)
JoinTexts(a, b) ==
    IF a = b THEN Scanned[a].text
    ELSE JoinTexts(a, b - 1) \o <<" ">> \o Scanned[b].text

\* the union of the bounding boxes of Scanned[a..b]
UnionBBox(a, b) ==
    << -SetMax({-Scanned[j].bbox[1] : j \in a..b}), -SetMax({-Scanned[j].bbox[2] : j \in a..b}),
       SetMax({Scanned[j].bbox[3] : j \in a..b}), SetMax({Scanned[j].bbox[4] : j \in a..b}) >>

\* the k-th smallest element of a set of positions
KthOf(S, k) == CHOOSE x \in S : Cardinality({y \in S : y < x}) = k - 1

\* the output is the division of Scanned into the consecutive runs that start
\* at the positions of starts
IsDivision(starts) ==
    /\ Len(merged) = Cardinality(starts)
    /\ \A k \in DOMAIN merged :
          Let(KthOf(starts, k), LAMBDA a :
          Let(IF k = Len(merged) THEN Len(Scanned) ELSE KthOf(starts, k + 1) - 1, LAMBDA b :
              /\ merged[k].text = JoinTexts(a, b)
              /\ merged[k].bbox = UnionBBox(a, b)
              /\ merged[k].page = Scanned[a].page))

\* C15: the output of the merger is a division of the candidates, sorted by
\* page and top, into consecutive runs: every candidate is in exactly one run,
\* the text of a run is its texts joined by single spaces, its box the union of
\* its boxes, and the output is no longer than the input; the lines
\* "Chapter 1:" and "Getting Started", same page, font and size, 10 points
\* apart, come out as the one candidate "Chapter 1: Getting Started"
C15_MergePartitionsIntoRuns ==
    fpc = "merged" =>
        /\ Len(merged) <= Len(cands)
        /\ IF cands = <<>> THEN merged = <<>>
           ELSE \E cuts \in SUBSET (2..Len(cands)) : IsDivision({1} \cup cuts)
        /\ {cands[i].text : i \in DOMAIN cands} = {<<"C","h","a","p","t","e","r"," ","1",":">>, <<"G","e","t","t","i","n","g"," ","S","t","a","r","t","e","d">>} =>
              /\ Len(merged) = 1
              /\ merged[1].text = <<"C","h","a","p","t","e","r"," ","1",":"," ","G","e","t","t","i","n","g"," ","S","t","a","r","t","e","d">>
              /\ merged[1].bbox = <<72, 100, 220, 134>>

C15_Witness ==
    /\ fpc = "merged"
    /\ Len(cands) = 2
    /\ cands[1].text = <<"G","e","t","t","i","n","g"," ","S","t","a","r","t","e","d">>
    /\ cands[2].text = <<"C","h","a","p","t","e","r"," ","1",":">>
    /\ cands[1].bbox[2] - cands[2].bbox[4] = 10
    /\ merged = <<[text |-> <<"C","h","a","p","t","e","r"," ","1",":"," ","G","e","t","t","i","n","g"," ","S","t","a","r","t","e","d">>, page |-> 1, bbox |-> <<72, 100, 220, 134>>,
                  font_size |-> 12, font_name |-> <<"A","r","i","a","l","-","B","o","l","d">>, src |-> {1, 2}]>>

(***************************************************************************)
(* Further claims about the classifier, checked under SpecClassify         *)
(***************************************************************************)
\* the rule of a level holds for a candidate: total_score > t/1000 or
\* font_score > f/10
RuleHolds(h, t, f) ==
    TotalGT(h, FontStats(cands), t) \/ FontGT(h, FontStats(cands), f)

\* C16: the level of a candidate is that of the first rule that holds, in the
\* order H1 (total_score > 1.5 or font_score > 2.0), H2 (0.8, 1.0), H3 (0.3,
\* 0.5), and none with confidence 0 when no rule holds; the confidence lies
\* in [0, 1]; every entry of the outline is a candidate whose level is not
\* none and whose confidence exceeds 0.3
C16_LevelRulesInOrder ==
    fpc = "classified" =>
        /\ \A i \in DOMAIN cands :
              /\ RuleHolds(cands[i], 1500, 20) => levels[i] = "H1"
              /\ (~RuleHolds(cands[i], 1500, 20) /\ RuleHolds(cands[i], 800, 10)) =>
                    levels[i] = "H2"
              /\ (/\ ~RuleHolds(cands[i], 1500, 20)
                  /\ ~RuleHolds(cands[i], 800, 10)
                  /\ RuleHolds(cands[i], 300, 5)) => levels[i] = "H3"
              /\ (/\ ~RuleHolds(cands[i], 1500, 20)
                  /\ ~RuleHolds(cands[i], 800, 10)
                  /\ ~RuleHolds(cands[i], 300, 5)) =>
                    /\ levels[i] = ""
                    /\ ~ConfidenceGT(cands[i], FontStats(cands), 0)
              /\ ~ConfidenceLT(cands[i], FontStats(cands), 0)
              /\ ~ConfidenceGT(cands[i], FontStats(cands), 1000)
        /\ \A e \in DOMAIN emitted :
              \E i \in DOMAIN cands :
                  /\ cands[i].src = emitted[e].src
                  /\ cands[i].text = emitted[e].text
                  /\ levels[i] = emitted[e].level
                  /\ levels[i] # ""
                  /\ ConfidenceGT(cands[i], FontStats(cands), 300)

\* a list with a candidate for which the H1 rule and the H2 rule hold, that
\* is H1 and in the outline, a candidate for which a rule holds and that is
\* not in the outline, and a candidate for which no rule holds
C16_Witness ==
    /\ fpc = "classified"
    /\ \E i, j, k \in DOMAIN cands :
          /\ levels[i] = "H1"
          /\ RuleHolds(cands[i], 800, 10)
          /\ \E e \in DOMAIN emitted : emitted[e].src = cands[i].src /\ emitted[e].level = "H1"
          /\ levels[j] # ""
          /\ \A e \in DOMAIN emitted : emitted[e].src # cands[j].src
          /\ levels[k] = ""

(***************************************************************************)
(* The functions of the title extractor called on their own.  No batch     *)
(* runs and neither the merger nor the classifier is called.               *)
(***************************************************************************)
\* the titles _cleanup_extracted_title is called on: an RFP marker, a request
\* marker, a proposal marker and a tail, each whole, broken or absent
TitleHeads == <<<<>>, <<"R","F","P",":"," ">>, <<"R","F","P",":"," ","R"," ","R","F","P",":"," ","R"," ">>>>
TitleRequests == <<<<>>, <<"R","e","q","u","e","s","t"," ","f","o","r"," ">>, <<"q","u","e","s","t"," ","f"," ","q","u","e","s","t"," ","f"," ">>, <<"e","q","u","e","s","t"," ","f","o","r"," ">>>>
TitleProposals == <<<<>>, <<"P","r","o","p","o","s","a","l">>, <<"P","r"," ","o","p","o","s","a","l">>, <<"o","p","o","s","a","l">>>>
TitleTails == <<<<>>, <<" ","P","l","a","n">>,
                <<" ","T","o"," ","P","r","e","s","e","n","t"," ","a"," ","P","r","o","p","o","s","a","l"," ","f","o","r"," ","D","e","v","e","l","o","p","i","n","g"," ","t","h","e"," ","B","u","s","i","n","e","s","s"," ","P","l","a","n"," ","f","o","r"," ","t","h","e"," ","O","n","t","a","r","i","o"," ","D","i","g","i","t","a","l"," ","L","i","b","r","a","r","y">>>>

TitleTexts ==
    {TitleHeads[h] \o TitleRequests[r] \o TitleProposals[p] \o TitleTails[t] :
        h \in DOMAIN TitleHeads, r \in DOMAIN TitleRequests,
        p \in DOMAIN TitleProposals, t \in DOMAIN TitleTails}

MaxTitleLines == 12

\* the font size of line k under a profile: all lines alike, every second line
\* a tenth smaller, the first line larger than the rest, the last line small,
\* every third line slightly smaller
ProfileSize(profile, k, n) ==
    CASE profile = 1 -> 20
      [] profile = 2 -> IF k % 2 = 0 THEN 18 ELSE 20
      [] profile = 3 -> IF k = 1 THEN 24 ELSE 20
      [] profile = 4 -> IF k = n THEN 10 ELSE 20
      [] OTHER       -> IF k % 3 = 0 THEN 19 ELSE 20

\* a one-page document of n lines "Part A", "Part B", ... 30 points apart
TitleDoc(profile, n) ==
    [npages |-> 1, height |-> 800,
     lines |-> [k \in 1..n |->
                  [page |-> 1,
                   spans |-> <<Span(<<"P","a","r","t"," ">> \o <<UpperSeq[k]>>, ProfileSize(profile, k, n),
                                    <<"A","r","i","a","l","-","B","o","l","d">>,
                                    <<72, 70 + 30 * k, 300, 70 + 30 * k + ProfileSize(profile, k, n)>>)>>]]]

TitleDocs == {TitleDoc(profile, n) : profile \in 1..5, n \in 1..MaxTitleLines}

InitTitle ==
    /\ NoBatch
    /\ NoCall
    /\ \/ tpc = "cleanup" /\ tin \in TitleTexts
       \/ tpc = "parts" /\ tin \in TitleDocs
    /\ tout = <<>>

\* tout = self._cleanup_extracted_title(tin)
CleanupTitle ==
    /\ tpc = "cleanup"
    /\ tout' = CleanupExtractedTitle(tin)
    /\ tpc' = "cleaned"
    /\ UNCHANGED tin
    /\ UNCHANGED <<mvars, fvars>>

\* _extract_title_carefully(tin) up to full_title = ' '.join(title_parts).strip()
BuildFullTitle ==
    /\ tpc = "parts"
    /\ tout' = Let(TitleParts(tin), LAMBDA parts : Strip(JoinParts(parts, Len(parts))))
    /\ tpc' = "built"
    /\ UNCHANGED tin
    /\ UNCHANGED <<mvars, fvars>>

NextTitle ==
    \/ CleanupTitle
    \/ BuildFullTitle

SpecTitle == InitTitle /\ [][NextTitle]_vars

(***************************************************************************)
(* Claims about the title extractor, checked under SpecTitle               *)
(***************************************************************************)
\* the companion keywords of the Ontario Digital Library title
Companions == {<<"P","r","e","s","e","n","t">>, <<"D","e","v","e","l","o","p","i","n","g">>, <<"B","u","s","i","n","e","s","s">>, <<"O","n","t","a","r","i","o">>, <<"D","i","g","i","t","a","l">>, <<"L","i","b","r","a","r","y">>}

HasCompanions(text) == \A w \in Companions : Contains(text, w)

HasRfp(text) == Contains(text, <<"R","F","P",":">>)

HasRequest(text) == Contains(text, <<"R","e","q","u","e","s","t">>) \/ Contains(text, <<"q","u","e","s","t">>)

HasProposal(text) == Contains(text, <<"P","r","o","p","o","s","a","l">>) \/ Contains(text, <<"o","p","o","s","a","l">>)

\* C18: _cleanup_extracted_title returns the full Ontario Digital Library
\* title only when the repaired text (with the original, as the code looks
\* them up) holds the RFP, request and proposal markers and every companion
\* keyword; with the RFP and request markers and without the full set of
\* companions it returns "RFP:Request for Proposal"
C18_FullTitleNeedsCompanions ==
    tpc = "cleaned" =>
        Let(CleanupSubstitutions(tin), LAMBDA repaired :
        Let(repaired \o <<" ">> \o tin, LAMBDA combined :
            /\ tout = FullRfpTitle =>
                  /\ HasRfp(repaired)
                  /\ HasRequest(combined)
                  /\ HasProposal(combined)
                  /\ HasCompanions(combined)
            /\ (HasRfp(repaired) /\ HasRequest(repaired) /\ ~HasCompanions(combined)) =>
                  tout = <<"R","F","P",":","R","e","q","u","e","s","t"," ","f","o","r"," ","P","r","o","p","o","s","a","l">>))

\* the retained lines of page 1 whose size is at least 90% of the largest
\* retained size and at least 70% of the largest size of the page
Cohort(d) ==
    Let(TextElements(d), LAMBDA retained :
    Let(SetMax({0} \cup {retained[i].font_size : i \in DOMAIN retained}), LAMBDA largest :
        SelectIdx(retained, LAMBDA i :
            /\ 10 * retained[i].font_size >= 9 * largest
            /\ 10 * retained[i].font_size >= 7 * MaxFont(d))))

\* C19: the multi-line title candidate is the texts of every line of the
\* cohort, however many, joined by single spaces in reading order (top to
\* bottom, then left to right)
C19_TitleFromWholeCohort ==
    tpc = "built" =>
        Let(TitlePartsOf(StableSort(Cohort(tin), ReadingOrderLess)), LAMBDA texts :
            tout = Strip(JoinParts(texts, Len(texts))))

====
